---- MODULE Spec2Model ----
(***************************************************************************)
(* Credential resolution (ApiKeyManager) and model-client construction     *)
(* (ModelLoader) of utils/model_loader.py.                                 *)
(*                                                                         *)
(* Text whose characters matter (secret values, the ENV flag) is a         *)
(* sequence of one-character strings.  A message is a sequence of tokens:  *)
(* the literal pieces of the f-string and the values interpolated into it. *)
(***************************************************************************)
EXTENDS Integers, Sequences, FiniteSets, TLC

VARIABLES
    environ,    \* os.environ: one field per variable the module reads
    dotenv,     \* the contents of the local .env file
    yaml,       \* the document load_config() returns
    pc,         \* "start", "constructed" or "failed" (the constructor raised)
    api_keys,   \* ApiKeyManager.api_keys
    config,     \* ModelLoader.config, as an option: <<>> until it is loaded
    log,        \* the records handed to the structured logger, in order
    calls,      \* the collaborators invoked, in order
    raised,     \* the exception that escaped the last operation, as an option
    result,     \* the value the last operation returned, as an option
    last,       \* the last operation and its argument
    ncalls      \* number of load_embeddings / load_llm calls made

vars == <<environ, dotenv, yaml, pc, api_keys, config, log, calls, raised, result, last, ncalls>>

----------------------------------------------------------------------------
(* Bounds of the model. *)

\* length of a short secret (at most MaskLen characters)
MinSecretLen == 3
\* length of a long secret (more than MaskLen characters)
MaxSecretLen == 7
\* load_embeddings / load_llm calls made on one loader
MaxCalls == 2

----------------------------------------------------------------------------
(* Python values. *)

\* a value is tagged with its Python type; v holds its content
Str(s) == [t |-> "str", v |-> s]
PyNone == [t |-> "NoneType", v |-> <<>>]
PyInt(digits) == [t |-> "int", v |-> digits]
PyBool(b) == [t |-> "bool", v |-> IF b THEN <<"T">> ELSE <<>>]
PyList(items) == [t |-> "list", v |-> items]
PyDict(keys) == [t |-> "dict", v |-> keys]

\* bool(x): None, "", 0, False, [] and {} are falsy
Truthy(x) ==
    CASE x.t = "NoneType" -> FALSE
      [] x.t = "int" -> x.v # <<"0">>
      [] OTHER -> x.v # <<>>

Falsy(x) == ~Truthy(x)

\* d.get(k): the value at k, or None
DictGet(d, k) == IF k \in DOMAIN d THEN d[k] ELSE PyNone

\* d[k] = v
DictSet(d, k, val) == [j \in DOMAIN d \cup {k} |-> IF j = k THEN val ELSE d[j]]

EmptyDict == [j \in {} |-> PyNone]

Take(s, n) == SubSeq(s, 1, IF Len(s) < n THEN Len(s) ELSE n)

\* whether needle occurs in hay as a contiguous run
Contains(hay, needle) ==
    \E i \in 0..Len(hay) :
        /\ i + Len(needle) <= Len(hay)
        /\ \A j \in 1..Len(needle) : hay[i + j] = needle[j]

\* an exception: its type, str(e) as tokens, and the exception being handled
\* when it was raised (__context__), as an option
Exc(type, msg, ctx) == [type |-> type, msg |-> msg, context |-> ctx]

\* one record handed to the logger: level, event text, structured fields
Rec(level, event, data) == [level |-> level, msg |-> event, data |-> data]

NoData == [j \in {} |-> <<>>]

----------------------------------------------------------------------------
(* ApiKeyManager *)

REQUIRED_KEYS == <<"GROQ_API_KEY", "GOOGLE_API_KEY", "OPENAI_API_KEY">>

Required == {REQUIRED_KEYS[i] : i \in 1..Len(REQUIRED_KEYS)}

\* number of characters of a value the success record shows
MaskLen == 6

Ellipsis == <<".", ".", ".">>

\* os.getenv(name)
Getenv(env, name) == env[name]

\* json.loads(raw): the parsed document, or a JSONDecodeError
JsonLoads(raw) ==
    IF raw.text = "json"
    THEN [ok |-> TRUE, value |-> raw.doc, error |-> <<>>]
    ELSE [ok |-> FALSE, value |-> PyNone,
          error |-> <<Exc("JSONDecodeError", <<"Expecting value: line 1 column 1 (char 0)">>, <<>>)>>]

\* api_keys and the log after the combined secret was read
LoadCombined(env) ==
    LET raw == Getenv(env, "API_KEYS") IN
    IF raw.text \in {"unset", "empty"}
    THEN [api_keys |-> EmptyDict, log |-> <<>>]
    ELSE LET parsed == JsonLoads(raw) IN
         IF ~parsed.ok
         THEN [api_keys |-> EmptyDict,
               log |-> <<Rec("warning", "Failed to parse API_KEYS as JSON",
                             [error |-> parsed.error[1].msg])>>]
         ELSE IF parsed.value.t # "dict"
         THEN [api_keys |-> EmptyDict,
               log |-> <<Rec("warning", "Failed to parse API_KEYS as JSON",
                             [error |-> <<"API_KEYS is not a valid JSON object">>])>>]
         ELSE [api_keys |-> parsed.value.v,
               log |-> <<Rec("info", "Loaded API_KEYS from ECS secret", NoData)>>]

\* FallbackStep, were the individual variable to win over the blob
FallbackStepEnvWins(env, st, key) ==
    LET env_val == Getenv(env, key) IN
    IF Truthy(env_val)
    THEN [api_keys |-> DictSet(st.api_keys, key, env_val),
          log |-> Append(st.log, Rec("info", "Loaded key from individual env var",
                                     [key |-> <<key>>]))]
    ELSE st

\* one turn of the fallback loop, for REQUIRED_KEYS[i]
FallbackStep(env, st, key) ==
    IF Truthy(DictGet(st.api_keys, key))
    THEN st
    ELSE LET env_val == Getenv(env, key) IN
         IF Truthy(env_val)
         THEN [api_keys |-> DictSet(st.api_keys, key, env_val),
               log |-> Append(st.log, Rec("info", "Loaded key from individual env var",
                                          [key |-> <<key>>]))]
         ELSE st

RECURSIVE Fallback(_, _, _)
Fallback(env, st, i) ==
    IF i > Len(REQUIRED_KEYS) THEN st
    ELSE Fallback(env, FallbackStep(env, st, REQUIRED_KEYS[i]), i + 1)

\* Missing, were it to test only whether the key is present
MissingAbsentOnly(keys) == SelectSeq(REQUIRED_KEYS, LAMBDA k : k \notin DOMAIN keys)

\* Missing, were it to report the first missing key only
MissingFirstOnly(keys) ==
    LET all == SelectSeq(REQUIRED_KEYS, LAMBDA k : Falsy(DictGet(keys, k))) IN
    IF all = <<>> THEN all ELSE <<all[1]>>

\* [k for k in REQUIRED_KEYS if not api_keys.get(k)]
Missing(keys) == SelectSeq(REQUIRED_KEYS, LAMBDA k : Falsy(DictGet(keys, k)))

\* v[:6] + "..." of one value
Masked(val) == Take(val.v, MaskLen) \o Ellipsis

\* the exceptions v[:6] + "..." can raise on a value: none on a str; a TypeError
\* on a value that cannot be sliced or added to a str; on a dict a TypeError
\* (slice unhashable) or, from Python 3.12 on, a KeyError
MaskErrors(val) ==
    CASE val.t = "str" -> {}
      [] val.t = "dict" -> {Exc("TypeError", <<"unhashable type: 'slice'">>, <<>>),
                            Exc("KeyError", <<"slice(None, 6, None)">>, <<>>)}
      [] OTHER -> {Exc("TypeError", <<"cannot slice or concatenate ", val.t>>, <<>>)}

\* the record that announces success
LoadedRecord(keys) ==
    Rec("info", "API keys loaded", [k \in DOMAIN keys |-> Masked(keys[k])])

\* the final check and the success record, on the credentials gathered.
\* The comprehension visits the entries in the blob's order, which the model
\* leaves open: any entry that cannot be masked may be the one that raises.
Validate(st) ==
    LET missing == Missing(st.api_keys)
        bad == UNION {MaskErrors(st.api_keys[k]) : k \in DOMAIN st.api_keys}
    IN  IF missing # <<>>
        THEN {[ok |-> FALSE, api_keys |-> EmptyDict,
               log |-> Append(st.log, Rec("error", "Missing required API keys",
                                          [missing_keys |-> missing])),
               error |-> <<Exc("DocumentPortalException", <<"Missing API keys">>, <<>>)>>]}
        ELSE IF bad # {}
        THEN {[ok |-> FALSE, api_keys |-> EmptyDict, log |-> st.log, error |-> <<e>>] : e \in bad}
        ELSE {[ok |-> TRUE, api_keys |-> st.api_keys,
               log |-> Append(st.log, LoadedRecord(st.api_keys)),
               error |-> <<>>]}

\* ApiKeyManager.__init__, were json.loads not guarded by the try
ApiKeyManagerInitBlobFatal(env) ==
    IF Getenv(env, "API_KEYS").text = "malformed"
    THEN {[ok |-> FALSE, api_keys |-> EmptyDict, log |-> <<>>,
           error |-> JsonLoads(Getenv(env, "API_KEYS")).error]}
    ELSE Validate(Fallback(env, LoadCombined(env), 1))

\* ApiKeyManager.__init__ under environment env: every outcome it can have
ApiKeyManagerInit(env) == Validate(Fallback(env, LoadCombined(env), 1))

\* ApiKeyManager.get(key)
ApiKeyManagerGet(keys, key) ==
    LET val == DictGet(keys, key) IN
    IF Falsy(val)
    THEN [result |-> <<>>,
          error |-> <<Exc("KeyError", <<"API key for ", key, " is missing">>, <<>>)>>]
    ELSE [result |-> <<val>>, error |-> <<>>]

----------------------------------------------------------------------------
(* ModelLoader *)

Production == <<"p", "r", "o", "d", "u", "c", "t", "i", "o", "n">>

Local == <<"l", "o", "c", "a", "l">>

\* str.lower() of one character, over the letters the ENV values use
LowerChar(c) ==
    CASE c = "P" -> "p" [] c = "R" -> "r" [] c = "O" -> "o" [] c = "D" -> "d"
      [] c = "U" -> "u" [] c = "C" -> "c" [] c = "T" -> "t" [] c = "I" -> "i"
      [] c = "N" -> "n" [] c = "L" -> "l" [] c = "A" -> "a"
      [] OTHER -> c

\* str.lower()
Lower(s) == [i \in 1..Len(s) |-> LowerChar(s[i])]

\* IsLocal, were the comparison case-sensitive
IsLocalCaseSensitive(env) ==
    LET flag == IF env.ENV = <<>> THEN Local ELSE env.ENV[1] IN
    flag # Production

\* os.getenv("ENV", "local").lower() != "production"
IsLocal(env) ==
    LET flag == IF env.ENV = <<>> THEN Local ELSE env.ENV[1] IN
    Lower(flag) # Production

\* load_dotenv(): every variable of the .env file that the process environment
\* does not hold yet is set from the file; a variable already set is kept
LoadDotenv(env, file) ==
    [name \in DOMAIN env |->
        IF name \in DOMAIN file /\ env[name] = PyNone THEN file[name] ELSE env[name]]

CallRec(fn, args, ok) == [fn |-> fn, args |-> args, ok |-> ok]

\* list(self.config.keys())
ConfigKeys(doc) ==
    SelectSeq(<<"embedding_model", "llm">>, LAMBDA k : doc[k] # <<>>)

\* ModelLoader.__init__: every outcome it can have
ModelLoaderInit(env, file, doc) ==
    LET local == IsLocal(env)
        env1 == IF local THEN LoadDotenv(env, file) ELSE env
        log1 == IF local
                THEN <<Rec("info", "Running in LOCAL mode: .env loaded", NoData)>>
                ELSE <<Rec("info", "Running in PRODUCTION mode", NoData)>>
        calls1 == IF local THEN <<CallRec("load_dotenv", NoData, TRUE)>> ELSE <<>>
    IN  {IF m.ok
         THEN [ok |-> TRUE, environ |-> env1, api_keys |-> m.api_keys, config |-> <<doc>>,
               log |-> (log1 \o m.log) \o
                       <<Rec("info", "YAML config loaded", [config_keys |-> ConfigKeys(doc)])>>,
               calls |-> calls1 \o <<CallRec("ApiKeyManager", NoData, TRUE),
                                     CallRec("load_config", NoData, TRUE)>>,
               error |-> <<>>]
         ELSE [ok |-> FALSE, environ |-> env1, api_keys |-> EmptyDict, config |-> <<>>,
               log |-> log1 \o m.log,
               calls |-> calls1 \o <<CallRec("ApiKeyManager", NoData, FALSE)>>,
               error |-> m.error]
         : m \in ApiKeyManagerInit(env1)}

\* what an external client factory raises when it fails
FactoryError == Exc("RuntimeError", <<"client construction failed">>, <<>>)

\* Caught, were the original error re-raised as it is
CaughtReraised(e, lg, cl) ==
    [result |-> <<>>,
     log |-> Append(lg, Rec("error", "Error loading embedding model", [error |-> e.msg])),
     calls |-> cl,
     error |-> <<e>>]

\* the except clause of load_embeddings: log the error, raise the wrapped one
\* (raised while e is being handled, so e is its __context__)
Caught(e, lg, cl) ==
    [result |-> <<>>,
     log |-> Append(lg, Rec("error", "Error loading embedding model", [error |-> e.msg])),
     calls |-> cl,
     error |-> <<Exc("DocumentPortalException", <<"Failed to load embedding model">>, <<e>>)>>]

\* ModelLoader.load_embeddings(); factory_ok: whether the embedding factory returns
LoadEmbeddingsBody(doc, keys, factory_ok) ==
    LET key == ApiKeyManagerGet(keys, "GOOGLE_API_KEY") IN
    IF doc.embedding_model = <<>>
    THEN Caught(Exc("KeyError", <<"'", "embedding_model", "'">>, <<>>), <<>>, <<>>)
    ELSE IF doc.embedding_model[1].model_name = <<>>
    THEN Caught(Exc("KeyError", <<"'", "model_name", "'">>, <<>>), <<>>, <<>>)
    ELSE LET model_name == doc.embedding_model[1].model_name[1]
             lg == <<Rec("info", "Loading embedding model", [model |-> <<model_name>>])>>
         IN  IF key.error # <<>>
             THEN Caught(key.error[1], lg, <<>>)
             ELSE LET call == CallRec("GoogleGenerativeAIEmbeddings",
                                      [model |-> <<model_name>>,
                                       google_api_key |-> key.result[1].v],
                                      factory_ok)
                  IN  IF factory_ok
                      THEN [result |-> <<call>>, log |-> lg, calls |-> <<call>>, error |-> <<>>]
                      ELSE Caught(FactoryError, lg, <<call>>)

DefaultProvider == "openai"

DefaultTemperature == "0.2"

DefaultMaxTokens == 2048

\* rendering of None in an f-string
NoneText == "None"

\* d.get(k, default) on an optional entry
GetOr(entry, default) == IF entry = <<>> THEN default ELSE entry[1]

\* os.getenv("LLM_PROVIDER", "openai")
ProviderKey(env) == GetOr(env.LLM_PROVIDER, DefaultProvider)

\* Branch, were an unrecognised tag to fall back to the openai factory
BranchDefaultOpenAI(provider) ==
    CASE provider = "google" -> <<[fn |-> "ChatGoogleGenerativeAI", key |-> "GOOGLE_API_KEY"]>>
      [] provider = "groq" -> <<[fn |-> "ChatGroq", key |-> "GROQ_API_KEY"]>>
      [] OTHER -> <<[fn |-> "ChatOpenAI", key |-> "OPENAI_API_KEY"]>>

\* the branch taken on the provider tag: the factory and the credential it is
\* given, or <<>> on the else branch
Branch(provider) ==
    CASE provider = "google" -> <<[fn |-> "ChatGoogleGenerativeAI", key |-> "GOOGLE_API_KEY"]>>
      [] provider = "groq" -> <<[fn |-> "ChatGroq", key |-> "GROQ_API_KEY"]>>
      [] provider = "openai" -> <<[fn |-> "ChatOpenAI", key |-> "OPENAI_API_KEY"]>>
      [] OTHER -> <<>>

\* FactoryArgs, were every branch to pass the token budget
FactoryArgsBudgetEverywhere(provider, model_name, key, temperature, max_tokens) ==
    CASE provider = "google" ->
            [model |-> model_name, google_api_key |-> key,
             temperature |-> temperature, max_output_tokens |-> max_tokens]
      [] OTHER ->
            [model |-> model_name, api_key |-> key,
             temperature |-> temperature, max_tokens |-> max_tokens]

\* the keyword arguments each branch passes to its factory
FactoryArgs(provider, model_name, key, temperature, max_tokens) ==
    CASE provider = "google" ->
            [model |-> model_name, google_api_key |-> key,
             temperature |-> temperature, max_output_tokens |-> max_tokens]
      [] provider = "groq" ->
            [model |-> model_name, api_key |-> key, temperature |-> temperature]
      [] OTHER ->
            [model |-> model_name, api_key |-> key,
             temperature |-> temperature, max_tokens |-> max_tokens]

\* ModelLoader.load_llm(); factory_ok: whether the chat factory returns
LoadLLMBody(env, doc, keys, factory_ok) ==
    LET provider_key == ProviderKey(env)
        fail(e, lg, cl) == [result |-> <<>>, log |-> lg, calls |-> cl, error |-> <<e>>]
    IN  IF doc.llm = <<>>
        THEN fail(Exc("KeyError", <<"'", "llm", "'">>, <<>>), <<>>, <<>>)
        ELSE IF provider_key \notin DOMAIN doc.llm[1]
        THEN fail(Exc("ValueError", <<"LLM provider '", provider_key, "' not found in config">>, <<>>),
                  <<Rec("error", "LLM provider not found in config", [provider |-> <<provider_key>>])>>,
                  <<>>)
        ELSE LET llm_config == doc.llm[1][provider_key]
                 provider == GetOr(llm_config.provider, NoneText)
                 model_name == llm_config.model_name
                 temperature == GetOr(llm_config.temperature, DefaultTemperature)
                 max_tokens == GetOr(llm_config.max_output_tokens, DefaultMaxTokens)
                 lg == <<Rec("info", "Loading LLM", [provider |-> <<provider>>, model |-> model_name])>>
                 branch == Branch(provider)
             IN  IF branch = <<>>
                 THEN fail(Exc("ValueError", <<"Unsupported LLM provider: ", provider>>, <<>>),
                           Append(lg, Rec("error", "Unsupported LLM provider",
                                          [provider |-> <<provider>>])),
                           <<>>)
                 ELSE LET key == ApiKeyManagerGet(keys, branch[1].key) IN
                      IF key.error # <<>>
                      THEN fail(key.error[1], lg, <<>>)
                      ELSE LET call == CallRec(branch[1].fn,
                                               FactoryArgs(provider, model_name, key.result[1].v,
                                                           <<temperature>>, <<max_tokens>>),
                                               factory_ok)
                           IN  IF factory_ok
                               THEN [result |-> <<call>>, log |-> lg, calls |-> <<call>>, error |-> <<>>]
                               ELSE fail(FactoryError, lg, <<call>>)

----------------------------------------------------------------------------
(* The inputs: process environment, .env file, configuration document. *)

Secret(c, n) == [i \in 1..n |-> c]

\* a character per required key, so that the keys' secrets differ
KeyChar(k) ==
    CASE k = "GROQ_API_KEY" -> "q" [] k = "GOOGLE_API_KEY" -> "g" [] OTHER -> "o"

\* what an individual variable can hold: unset, empty, a short or a long secret
EnvValues ==
    {PyNone, Str(<<>>), Str(Secret("e", MinSecretLen)), Str(Secret("e", MaxSecretLen))}

\* what the blob can hold under a required key
BlobValues ==
    {Str(<<>>), Str(Secret("b", MinSecretLen)), Str(Secret("b", MaxSecretLen)),
     PyNone, PyInt(<<"7">>)}

\* a key of the blob that is not a required key
ExtraKey == "ANTHROPIC_API_KEY"

\* what the blob can hold under the extra key
ExtraValues ==
    {Str(Secret("x", MinSecretLen)), Str(Secret("x", MaxSecretLen)),
     PyNone, PyInt(<<"0">>), PyBool(TRUE), PyList(<<"x">>), PyDict(<<>>)}

KeyNames == Required \cup {ExtraKey}

\* the JSON objects the blob can hold
BlobObjects ==
    {f @@ g : f \in UNION {[D -> BlobValues] : D \in SUBSET Required},
              g \in {EmptyDict} \cup {ExtraKey :> x : x \in ExtraValues}}

Raw(text, doc) == [text |-> text, doc |-> doc]

\* API_KEYS unset, set to the empty string, or set to text that is not JSON
PlainBlobs == {Raw("unset", PyNone), Raw("empty", PyNone), Raw("malformed", PyNone)}

\* API_KEYS set to JSON that is not an object: null, 0, [], ["x"], "bbb"
ScalarBlobs ==
    {Raw("json", x) : x \in {PyNone, PyInt(<<"0">>), PyList(<<>>), PyList(<<"x">>),
                             Str(Secret("b", MinSecretLen))}}

ObjectBlobs == {Raw("json", [t |-> "dict", v |-> f]) : f \in BlobObjects}

Environ(raw, groq, google, openai, flag, provider) ==
    [API_KEYS |-> raw, GROQ_API_KEY |-> groq, GOOGLE_API_KEY |-> google,
     OPENAI_API_KEY |-> openai, ENV |-> flag, LLM_PROVIDER |-> provider]

\* the values of ENV: unset, or one of these texts
EnvFlags ==
    {<<>>, <<Production>>, <<Local>>,
     <<(<<"P", "R", "O", "D", "U", "C", "T", "I", "O", "N">>)>>,
     <<(<<"P", "r", "o", "d", "u", "c", "t", "i", "o", "n">>)>>}

\* the values of LLM_PROVIDER: unset, or one of these
ProviderOverrides == {<<>>, <<"groq">>, <<"mistral">>}

\* the .env files: empty, or one holding the three required keys
DotenvFiles == {EmptyDict, [k \in Required |-> Str(<<"d">> \o Secret(KeyChar(k), MaxSecretLen))]}

\* the entries of an LLM block
LLMConfigs ==
    [provider : {<<>>, <<"google">>, <<"groq">>, <<"openai">>, <<"azure">>},
     model_name : {<<"gpt-x">>},
     temperature : {<<>>, <<"0.1">>},
     max_output_tokens : {<<>>, <<1024>>}]

\* the llm section: absent, empty, or one entry under one provider key
LLMSections ==
    {<<>>, <<EmptyDict>>} \cup
    {<<(key :> c)>> : key \in {"openai", "groq", "google"}, c \in LLMConfigs}

\* the embedding_model section: absent, without model_name, or complete
EmbeddingSections ==
    {<<>>, <<[model_name |-> <<>>]>>, <<[model_name |-> <<"models/text-embedding-004">>]>>}

Configs == [embedding_model : EmbeddingSections, llm : LLMSections]

\* the configuration document used where the credentials are the subject
PlainConfig ==
    [embedding_model |-> <<[model_name |-> <<"models/text-embedding-004">>]>>,
     llm |-> <<("openai" :> [provider |-> <<"openai">>, model_name |-> <<"gpt-x">>,
                             temperature |-> <<"0.1">>, max_output_tokens |-> <<>>])>>]

----------------------------------------------------------------------------
(* The state machine. *)

NoOp == [op |-> "none", arg |-> ""]

Fresh ==
    /\ pc = "start"
    /\ api_keys = EmptyDict
    /\ config = <<>>
    /\ log = <<>>
    /\ calls = <<>>
    /\ raised = <<>>
    /\ result = <<>>
    /\ last = NoOp
    /\ ncalls = 0

\* a process about to construct a ModelLoader
Init ==
    /\ \E raw \in {Raw("unset", PyNone), Raw("malformed", PyNone),
                   Raw("json", [t |-> "dict", v |-> (ExtraKey :> PyInt(<<"0">>))])},
          n \in {0, MaxSecretLen},
          flag \in EnvFlags, provider \in ProviderOverrides :
            LET secret(k) == IF n = 0 THEN PyNone ELSE Str(Secret(KeyChar(k), n)) IN
            environ = Environ(raw, secret("GROQ_API_KEY"), secret("GOOGLE_API_KEY"),
                              secret("OPENAI_API_KEY"), flag, provider)
    /\ dotenv \in DotenvFiles
    /\ yaml \in Configs
    /\ Fresh

\* a process about to construct an ApiKeyManager
InitKeys ==
    /\ \/ \E raw \in PlainBlobs \cup ScalarBlobs, groq, google, openai \in EnvValues :
            environ = Environ(raw, groq, google, openai, <<>>, <<>>)
       \/ \E raw \in ObjectBlobs, groq, google, openai \in EnvValues :
            environ = Environ(raw, groq, google, openai, <<>>, <<>>)
    /\ dotenv = EmptyDict
    /\ yaml = PlainConfig
    /\ Fresh

\* ApiKeyManager()
NewApiKeyManager ==
    /\ pc = "start"
    /\ \E o \in ApiKeyManagerInit(environ) :
        /\ pc' = IF o.ok THEN "constructed" ELSE "failed"
        /\ api_keys' = o.api_keys
        /\ log' = log \o o.log
        /\ raised' = o.error
    /\ result' = <<>>
    /\ last' = [op |-> "ApiKeyManager", arg |-> ""]
    /\ UNCHANGED <<environ, dotenv, yaml, config, calls, ncalls>>

\* api_key_mgr.get(key)
Get(key) ==
    /\ pc = "constructed"
    /\ LET o == ApiKeyManagerGet(api_keys, key) IN
        /\ result' = o.result
        /\ raised' = o.error
    /\ last' = [op |-> "get", arg |-> key]
    /\ UNCHANGED <<environ, dotenv, yaml, pc, api_keys, config, log, calls, ncalls>>

\* ModelLoader()
NewModelLoader ==
    /\ pc = "start"
    /\ \E o \in ModelLoaderInit(environ, dotenv, yaml) :
        /\ pc' = IF o.ok THEN "constructed" ELSE "failed"
        /\ environ' = o.environ
        /\ api_keys' = o.api_keys
        /\ config' = o.config
        /\ log' = log \o o.log
        /\ calls' = calls \o o.calls
        /\ raised' = o.error
    /\ result' = <<>>
    /\ last' = [op |-> "ModelLoader", arg |-> ""]
    /\ UNCHANGED <<dotenv, yaml, ncalls>>

\* loader.load_embeddings()
LoadEmbeddings ==
    /\ pc = "constructed"
    /\ config # <<>>
    /\ ncalls < MaxCalls
    /\ \E factory_ok \in BOOLEAN :
        LET o == LoadEmbeddingsBody(config[1], api_keys, factory_ok) IN
        /\ result' = o.result
        /\ raised' = o.error
        /\ log' = log \o o.log
        /\ calls' = calls \o o.calls
    /\ last' = [op |-> "load_embeddings", arg |-> ""]
    /\ ncalls' = ncalls + 1
    /\ UNCHANGED <<environ, dotenv, yaml, pc, api_keys, config>>

\* loader.load_llm()
LoadLLM ==
    /\ pc = "constructed"
    /\ config # <<>>
    /\ ncalls < MaxCalls
    /\ \E factory_ok \in BOOLEAN :
        LET o == LoadLLMBody(environ, config[1], api_keys, factory_ok) IN
        /\ result' = o.result
        /\ raised' = o.error
        /\ log' = log \o o.log
        /\ calls' = calls \o o.calls
    /\ last' = [op |-> "load_llm", arg |-> ""]
    /\ ncalls' = ncalls + 1
    /\ UNCHANGED <<environ, dotenv, yaml, pc, api_keys, config>>

Next ==
    \/ NewModelLoader
    \/ LoadEmbeddings
    \/ LoadLLM

Spec == Init /\ [][Next]_vars

NextKeys ==
    \/ NewApiKeyManager
    \/ \E key \in KeyNames : Get(key)

SpecKeys == InitKeys /\ [][NextKeys]_vars

----------------------------------------------------------------------------
(* Properties of the credential resolver, checked under SpecKeys. *)

Blob == environ.API_KEYS

BlobIsObject == Blob.text = "json" /\ Blob.doc.t = "dict"

BlobHas(k) == BlobIsObject /\ k \in DOMAIN Blob.doc.v

\* the blob holds a non-empty value under k
BlobSupplies(k) == BlobHas(k) /\ Truthy(Blob.doc.v[k])

\* k is absent or empty in the blob and in the individual variable
MissingEverywhere(k) == ~BlobSupplies(k) /\ Falsy(environ[k])

\* the blob is present but is not JSON, or is JSON that is not an object
BlobDiscarded == Blob.text = "malformed" \/ (Blob.text = "json" /\ Blob.doc.t # "dict")

Elements(seq) == {seq[i] : i \in 1..Len(seq)}

\* whether the text of exception e names x
Names(e, x) == x \in Elements(e.msg)

\* C1: construction fails or leaves every required key mapped to a non-empty
\* value; after a successful construction get(k) returns that value for every
\* required key k and raises nothing.
C1_CompleteOrFail ==
    /\ pc \in {"start", "constructed", "failed"}
    /\ pc = "failed" => raised # <<>>
    /\ pc = "constructed" =>
          \A k \in Required :
              /\ k \in DOMAIN api_keys
              /\ Truthy(api_keys[k])
              /\ api_keys[k].v # <<>>
    /\ (pc = "constructed" /\ last.op = "get" /\ last.arg \in Required) =>
          /\ raised = <<>>
          /\ result = <<api_keys[last.arg]>>

C1_Witness ==
    /\ pc = "constructed"
    /\ BlobIsObject
    /\ last.op = "get"
    /\ last.arg = "GOOGLE_API_KEY"
    /\ result # <<>>

\* C2 as stated: on success each required key holds the blob's value whenever
\* the blob is a JSON object containing the key, and the individual variable's
\* value otherwise.
C2_BlobContainingKeyWins ==
    pc = "constructed" =>
        \A k \in Required :
            api_keys[k] = IF BlobHas(k) THEN Blob.doc.v[k] ELSE environ[k]

\* C2, amended: on success each required key holds the blob's value whenever
\* the blob is a JSON object holding a non-empty value under the key, and the
\* individual variable's value otherwise; the credential set has the keys of
\* both sources; with the blob absent it holds exactly the three variables.
C2_NonEmptyBlobValueWins ==
    pc = "constructed" =>
        /\ \A k \in Required :
              api_keys[k] = IF BlobSupplies(k) THEN Blob.doc.v[k] ELSE environ[k]
        /\ DOMAIN api_keys = Required \cup (IF BlobIsObject THEN DOMAIN Blob.doc.v ELSE {})
        /\ Blob.text = "unset" =>
              /\ DOMAIN api_keys = Required
              /\ \A k \in Required : api_keys[k] = environ[k]

C2_Witness ==
    /\ pc = "constructed"
    /\ BlobSupplies("GROQ_API_KEY")
    /\ Truthy(environ["GROQ_API_KEY"])
    /\ ~BlobHas("OPENAI_API_KEY")
    /\ BlobHas("GOOGLE_API_KEY")
    /\ ~BlobSupplies("GOOGLE_API_KEY")

\* C3: a blob that is malformed or not an object is discarded: construction
\* then succeeds with the three individual values whenever all three are set
\* and non-empty, and whenever it fails it fails for a missing credential.
C3_DiscardedBlobNotFatal ==
    (pc # "start" /\ BlobDiscarded) =>
        /\ log # <<>>
        /\ log[1].level = "warning"
        /\ (\A k \in Required : Truthy(environ[k])) =>
              /\ pc = "constructed"
              /\ DOMAIN api_keys = Required
              /\ \A k \in Required : api_keys[k] = environ[k]
        /\ pc = "failed" =>
              /\ raised # <<>>
              /\ raised[1].type = "DocumentPortalException"
              /\ \E k \in Required : Falsy(environ[k])

C3_Witness ==
    /\ pc = "constructed"
    /\ Blob.text = "malformed"
    /\ last.op = "ApiKeyManager"

\* C4 as stated: when a required key is missing from both sources construction
\* fails with the missing-credential error, and that error names exactly the
\* missing keys.
C4_ErrorNamesMissing ==
    (pc # "start" /\ \E k \in Required : MissingEverywhere(k)) =>
        /\ pc = "failed"
        /\ raised[1].type = "DocumentPortalException"
        /\ \A k \in Required : Names(raised[1], k) <=> MissingEverywhere(k)

\* C4, amended: when a required key is missing from both sources construction
\* fails with the missing-credential error, whose text is the fixed message
\* "Missing API keys"; the error record logged just before it lists exactly
\* the missing keys.
C4_LogNamesMissing ==
    (pc # "start" /\ \E k \in Required : MissingEverywhere(k)) =>
        /\ pc = "failed"
        /\ raised # <<>>
        /\ raised[1].type = "DocumentPortalException"
        /\ raised[1].msg = <<"Missing API keys">>
        /\ log # <<>>
        /\ LET r == log[Len(log)] IN
              /\ r.level = "error"
              /\ r.msg = "Missing required API keys"
              /\ \A k \in Required :
                    k \in Elements(r.data.missing_keys) <=> MissingEverywhere(k)

C4_Witness ==
    /\ pc = "failed"
    /\ MissingEverywhere("GROQ_API_KEY")
    /\ MissingEverywhere("OPENAI_API_KEY")
    /\ ~MissingEverywhere("GOOGLE_API_KEY")
    /\ BlobIsObject

\* C5: on success the summary shows, for every entry of the credential set,
\* the first six characters and an ellipsis, and no record logged during
\* construction contains a full (non-empty) secret value.
C5_NoFullSecretLogged ==
    pc = "constructed" =>
        /\ \A k \in DOMAIN api_keys :
              log[Len(log)].data[k] = Take(api_keys[k].v, MaskLen) \o Ellipsis
        /\ \A i \in 1..Len(log) : \A f \in DOMAIN log[i].data : \A k \in DOMAIN api_keys :
              api_keys[k].v # <<>> => ~Contains(log[i].data[f], api_keys[k].v)

\* C10: the constructor succeeds or fails with the missing-credential error;
\* no other error escapes it.
C10_OnlyMissingCredentialEscapes ==
    pc = "failed" =>
        /\ raised[1].type = "DocumentPortalException"
        /\ \E k \in Required : MissingEverywhere(k)

----------------------------------------------------------------------------
(* Properties of the model loader, checked under Spec. *)

\* the provider key load_llm is asked for
RequestedKey == IF environ.LLM_PROVIDER = <<>> THEN "openai" ELSE environ.LLM_PROVIDER[1]

HasBlock == yaml.llm # <<>> /\ RequestedKey \in DOMAIN yaml.llm[1]

RequestedBlock == yaml.llm[1][RequestedKey]

SupportedTags == {"google", "groq", "openai"}

ChatFactories == {"ChatGoogleGenerativeAI", "ChatGroq", "ChatOpenAI"}

\* the requested block exists and carries a recognised provider tag
Buildable ==
    /\ HasBlock
    /\ RequestedBlock.provider # <<>>
    /\ RequestedBlock.provider[1] \in SupportedTags

\* C6: load_llm() takes the block named by LLM_PROVIDER ("openai" when unset)
\* and invokes the one factory of that block's provider tag with the block's
\* model name, that provider's credential, the temperature (0.2 when absent)
\* and the token budget (2048 when absent; none for groq).
C6_SelectedFactoryAndArguments ==
    (last.op = "load_llm" /\ Buildable) =>
        LET tag == RequestedBlock.provider[1]
            c == calls[Len(calls)]
            temperature == IF RequestedBlock.temperature = <<>>
                           THEN <<"0.2">> ELSE RequestedBlock.temperature
            budget == IF RequestedBlock.max_output_tokens = <<>>
                      THEN <<2048>> ELSE RequestedBlock.max_output_tokens
        IN  /\ c.ok => result = <<c>>
            /\ ~c.ok => result = <<>>
            /\ c.args.model = RequestedBlock.model_name
            /\ c.args.temperature = temperature
            /\ \A i \in 1..Len(calls) : calls[i].fn \in ChatFactories => calls[i].fn = c.fn
            /\ Cardinality({i \in 1..Len(calls) :
                              calls[i].fn \notin {"load_dotenv", "ApiKeyManager", "load_config"}})
                  <= ncalls
            /\ tag = "google" =>
                  /\ c.fn = "ChatGoogleGenerativeAI"
                  /\ c.args.google_api_key = api_keys["GOOGLE_API_KEY"].v
                  /\ c.args.max_output_tokens = budget
                  /\ DOMAIN c.args = {"model", "google_api_key", "temperature", "max_output_tokens"}
            /\ tag = "groq" =>
                  /\ c.fn = "ChatGroq"
                  /\ c.args.api_key = api_keys["GROQ_API_KEY"].v
                  /\ DOMAIN c.args = {"model", "api_key", "temperature"}
            /\ tag = "openai" =>
                  /\ c.fn = "ChatOpenAI"
                  /\ c.args.api_key = api_keys["OPENAI_API_KEY"].v
                  /\ c.args.max_tokens = budget
                  /\ DOMAIN c.args = {"model", "api_key", "temperature", "max_tokens"}

\* the example of the specification: llm.openai = {provider: openai, model_name:
\* gpt-x, temperature: 0.1}, LLM_PROVIDER unset
C6_Witness ==
    /\ last.op = "load_llm"
    /\ environ.LLM_PROVIDER = <<>>
    /\ yaml.llm = <<("openai" :> [provider |-> <<"openai">>, model_name |-> <<"gpt-x">>,
                                  temperature |-> <<"0.1">>, max_output_tokens |-> <<>>])>>
    /\ result # <<>>
    /\ result[1].fn = "ChatOpenAI"
    /\ result[1].args.temperature = <<"0.1">>
    /\ result[1].args.max_tokens = <<2048>>

C8_EmbeddingErrorsWrapped ==
    last.op = "load_embeddings" =>
        /\ (result = <<>>) <=> (raised # <<>>)
        /\ raised # <<>> =>
              /\ raised[1].type = "DocumentPortalException"
              /\ raised[1].context # <<>>
              /\ raised[1].context[1].type # "DocumentPortalException"
              /\ log[Len(log)].level = "error"
              /\ log[Len(log)].data.error = raised[1].context[1].msg
        /\ (yaml.embedding_model = <<>> \/ yaml.embedding_model[1].model_name = <<>>) =>
              /\ raised # <<>>
              /\ raised[1].context[1].type = "KeyError"
        /\ (calls[Len(calls)].fn = "GoogleGenerativeAIEmbeddings" /\ ~calls[Len(calls)].ok) =>
              /\ raised # <<>>
              /\ raised[1].context[1] = FactoryError
        /\ result # <<>> =>
              /\ result[1] = calls[Len(calls)]
              /\ result[1].fn = "GoogleGenerativeAIEmbeddings"
              /\ result[1].args.model = yaml.embedding_model[1].model_name
              /\ result[1].args.google_api_key = api_keys["GOOGLE_API_KEY"].v
              /\ DOMAIN result[1].args = {"model", "google_api_key"}

C8_Witness ==
    /\ last.op = "load_embeddings"
    /\ raised # <<>>
    /\ raised[1].context[1].type = "RuntimeError"
    /\ calls[Len(calls)].fn = "GoogleGenerativeAIEmbeddings"

\* the spellings of "production" among the values of ENV
ProductionSpellings == {e \in EnvFlags : e # <<>> /\ Len(e[1]) = Len(Production)}

FnAt(cs, i) == IF i \in 1..Len(cs) THEN cs[i].fn ELSE "none"

\* C9: constructing the loader loads the .env file first unless ENV spells
\* "production" in any case, and then never; credentials are resolved next, from
\* the environment the file has filled; the configuration is loaded last and
\* only if the credentials resolved; a loader whose construction failed takes
\* no further step.
C9_ConstructionOrder ==
    [][/\ pc # "failed"
       /\ pc = "start" =>
            /\ environ.ENV \notin ProductionSpellings =>
                  /\ FnAt(calls', 1) = "load_dotenv"
                  /\ FnAt(calls', 2) = "ApiKeyManager"
                  /\ \A k \in Required :
                        (environ[k] = PyNone /\ k \in DOMAIN dotenv) =>
                            /\ environ'[k] = dotenv[k]
                            /\ (pc' = "constructed" /\ ~BlobSupplies(k)) => api_keys'[k] = dotenv[k]
            /\ environ.ENV \in ProductionSpellings =>
                  /\ FnAt(calls', 1) = "ApiKeyManager"
                  /\ \A i \in 1..Len(calls') : calls'[i].fn # "load_dotenv"
                  /\ environ' = environ
            /\ \A i \in 1..Len(calls') :
                  calls'[i].fn = "load_config" =>
                      /\ i = Len(calls')
                      /\ FnAt(calls', i - 1) = "ApiKeyManager"
                      /\ calls'[i - 1].ok
            /\ pc' = "constructed" => (config' = <<yaml>> /\ FnAt(calls', Len(calls')) = "load_config")
            /\ pc' = "failed" =>
                  /\ config' = <<>>
                  /\ raised' # <<>>
                  /\ \A i \in 1..Len(calls') : calls'[i].fn # "load_config"
      ]_vars

\* the credentials came from the .env file, which was therefore read first
C9_Witness ==
    /\ pc = "constructed"
    /\ calls[1].fn = "load_dotenv"
    /\ dotenv # EmptyDict
    /\ api_keys["GROQ_API_KEY"] = dotenv["GROQ_API_KEY"]
    /\ calls[3].fn = "load_config"

====
